---- MODULE Spec2Model ----
(***************************************************************************)
(* Model of src/pick-reservation.jsx: the warehouse pick reservation App.   *)
(* Strings that the code formats and parses ("HH:MM" labels, "YYYY-MM-DD"   *)
(* dates, the text of number inputs) are sequences of one-character         *)
(* strings, so that fmtTime / timeToMinutes / fmtDate / parseDate /         *)
(* parseInt are computed, not assumed.                                      *)
(***************************************************************************)
EXTENDS Integers, Sequences, FiniteSets, TLC

(***************************************************************************)
(* Bounds of the model.                                                    *)
(***************************************************************************)
\* reservations created in one behaviour (genId calls)
MaxRes == 2
\* storage writes one session keeps in flight
MaxPending == 1
\* the same two bounds where a second confirm click is tried
MaxResRepeat == 3
MaxPendingRepeat == 2

(***************************************************************************)
(* JavaScript primitives used by the utilities.                            *)
(***************************************************************************)
DigitChars == <<"0", "1", "2", "3", "4", "5", "6", "7", "8", "9">>

Max(a, b) == IF a >= b THEN a ELSE b

\* JS remainder: the sign follows the dividend
JsMod(a, b) == IF a >= 0 THEN a % b ELSE -((-a) % b)

RECURSIVE NatToStr(_)
NatToStr(n) ==
  IF n < 10 THEN <<DigitChars[n + 1]>>
  ELSE NatToStr(n \div 10) \o <<DigitChars[(n % 10) + 1]>>

\* String(n) for an integer n
String(n) == IF n < 0 THEN <<"-">> \o NatToStr(-n) ELSE NatToStr(n)

RECURSIVE padStart(_, _, _)
padStart(s, len, c) == IF Len(s) >= len THEN s ELSE padStart(<<c>> \o s, len, c)

pad2(n) == padStart(String(n), 2, "0")

fmtTime(h, m) == pad2(h) \o <<":">> \o pad2(m)

DigitValue ==
  ("0" :> 0) @@ ("1" :> 1) @@ ("2" :> 2) @@ ("3" :> 3) @@ ("4" :> 4) @@
  ("5" :> 5) @@ ("6" :> 6) @@ ("7" :> 7) @@ ("8" :> 8) @@ ("9" :> 9)

RECURSIVE DigitsToNat(_, _, _)
DigitsToNat(s, i, acc) ==
  IF i > Len(s) THEN acc ELSE DigitsToNat(s, i + 1, acc * 10 + DigitValue[s[i]])

\* the index of the first character of s at or after i that is no blank
RECURSIVE skipBlanks(_, _)
skipBlanks(s, i) == IF i <= Len(s) /\ s[i] = " " THEN skipBlanks(s, i + 1) ELSE i

\* the index after the digits of s that start at i
RECURSIVE digitsEnd(_, _)
digitsEnd(s, i) == IF i <= Len(s) /\ s[i] \in DOMAIN DigitValue THEN digitsEnd(s, i + 1) ELSE i

\* parseInt(s): blanks, an optional sign, then the digits up to the first other
\* character; NaN (nan = TRUE) when there is no digit there
parseInt(s) ==
  LET b == skipBlanks(s, 1)
      signed == b <= Len(s) /\ s[b] \in {"-", "+"}
      from == IF signed THEN b + 1 ELSE b
      to == digitsEnd(s, from)
      n == DigitsToNat(SubSeq(s, from, to - 1), 1, 0)
  IN [nan |-> to = from, value |-> IF signed /\ s[b] = "-" THEN -n ELSE n]

\* Number(s) for a decimal integer text (the empty text is 0, as in JS)
Number(s) ==
  IF s = <<>> THEN 0
  ELSE IF s[1] = "-" THEN -DigitsToNat(s, 2, 0)
  ELSE DigitsToNat(s, 1, 0)

\* s.split(sep): the pieces of s between occurrences of the character sep
\* (i scans s, cur is the piece being read, acc the pieces read)
RECURSIVE splitScan(_, _, _, _, _)
splitScan(s, sep, i, cur, acc) ==
  IF i > Len(s) THEN Append(acc, cur)
  ELSE IF s[i] = sep THEN splitScan(s, sep, i + 1, <<>>, Append(acc, cur))
  ELSE splitScan(s, sep, i + 1, Append(cur, s[i]), acc)

split(s, sep) == splitScan(s, sep, 1, <<>>, <<>>)

timeToMinutes(t) ==
  LET parts == split(t, ":")
      h == Number(parts[1])
      m == Number(parts[2])
  IN h * 60 + m

(***************************************************************************)
(* Dates.  A Date at local midnight is the record of its getFullYear(),    *)
(* getMonth() (0..11) and getDate(); a date text is "YYYY-MM-DD".          *)
(***************************************************************************)
IsLeap(y) == (y % 4 = 0 /\ y % 100 # 0) \/ y % 400 = 0

\* days of month m (0..11) of year y
DaysInMonth(y, m) ==
  IF m = 1 THEN (IF IsLeap(y) THEN 29 ELSE 28)
  ELSE IF m \in {3, 5, 8, 10} THEN 30
  ELSE 31

\* new Date(y, m, d): a month outside 0..11 and a day outside the month carry over
RECURSIVE NewDate(_, _, _)
NewDate(y, m, d) ==
  IF m < 0 \/ m > 11 THEN NewDate(y + (m \div 12), m % 12, d)
  ELSE IF d > DaysInMonth(y, m) THEN NewDate(y, m + 1, d - DaysInMonth(y, m))
  ELSE IF d < 1
    THEN LET py == IF m = 0 THEN y - 1 ELSE y
             pm == IF m = 0 THEN 11 ELSE m - 1
         IN NewDate(py, pm, d + DaysInMonth(py, pm))
  ELSE [y |-> y, m |-> m, d |-> d]

\* a < b, a <= b on Dates
DateLess(a, b) ==
  a.y < b.y \/ (a.y = b.y /\ (a.m < b.m \/ (a.m = b.m /\ a.d < b.d)))
DateLeq(a, b) == ~DateLess(b, a)

fmtDate(d) == String(d.y) \o <<"-">> \o pad2(d.m + 1) \o <<"-">> \o pad2(d.d)

parseDate(s) ==
  LET parts == split(s, "-")
  IN NewDate(Number(parts[1]), Number(parts[2]) - 1, Number(parts[3]))

\* the days getMonthDays lists for a month (its leading nulls left out)
getMonthDays(year, month) == 1..NewDate(year, month + 1, 0).d

(***************************************************************************)
(* Constants of the program.                                               *)
(***************************************************************************)
PRODUCTS == <<
  [id |-> "quarter", requiredSlots |-> 1, durationMin |-> 60],
  [id |-> "half", requiredSlots |-> 3, durationMin |-> 120],
  [id |-> "full", requiredSlots |-> 2, durationMin |-> 180],
  [id |-> "pick-guide-half", requiredSlots |-> 3, durationMin |-> 180],
  [id |-> "pick-guide-full", requiredSlots |-> 2, durationMin |-> 240] >>

DEFAULT_SETTINGS ==
  [maxCapacity |-> 6, openHour |-> 9, openMin |-> 0, closeHour |-> 19, closeMin |-> 0,
   slotIntervalMin |-> 30, calendarMonths |-> 3, holidays |-> {}]

(***************************************************************************)
(* The engine: slot grid, occupancy, booking validity, availability.       *)
(***************************************************************************)
\* genCond admitting the closing time itself
genCondInclusive(h, m, settings) == h * 60 + m <= settings.closeHour * 60 + settings.closeMin

\* the while condition of generateTimeSlots
genCond(h, m, settings) == h * 60 + m < settings.closeHour * 60 + settings.closeMin

\* the slot pushed by one iteration
genSlot(h, m) == [hour |-> h, min |-> m, label |-> fmtTime(h, m)]

\* h and m after one iteration
genAdvance(h, m, settings) ==
  LET m2 == m + settings.slotIntervalMin
  IN IF m2 >= 60 THEN [h |-> h + (m2 \div 60), m |-> JsMod(m2, 60)]
     ELSE [h |-> h, m |-> m2]

RECURSIVE genLoop(_, _, _, _)
genLoop(h, m, slots, settings) ==
  IF ~genCond(h, m, settings) THEN slots
  ELSE LET nx == genAdvance(h, m, settings)
       IN genLoop(nx.h, nx.m, Append(slots, genSlot(h, m)), settings)

generateTimeSlots(settings) == genLoop(settings.openHour, settings.openMin, <<>>, settings)

\* occStep with the end of the interval included
occStepClosed(sum, r, slotLabel) ==
  LET startIdx == timeToMinutes(r.startTime)
      endIdx == timeToMinutes(r.endTime)
      slotMin == timeToMinutes(slotLabel)
  IN IF slotMin >= startIdx /\ slotMin <= endIdx THEN sum + r.requiredSlots ELSE sum

\* the reducer of getSlotOccupancy applied to one reservation
occStep(sum, r, slotLabel) ==
  LET startIdx == timeToMinutes(r.startTime)
      endIdx == timeToMinutes(r.endTime)
      slotMin == timeToMinutes(slotLabel)
  IN IF slotMin >= startIdx /\ slotMin < endIdx THEN sum + r.requiredSlots ELSE sum

RECURSIVE occReduce(_, _, _)
occReduce(rs, sum, slotLabel) ==
  IF rs = <<>> THEN sum ELSE occReduce(Tail(rs), occStep(sum, Head(rs), slotLabel), slotLabel)

\* occFilter keeping the reservations of the date whatever their status
occFilterAnyStatus(r, date) == r.date = date

occFilter(r, date) == r.date = date /\ r.status = "confirmed"

getSlotOccupancy(date, slotLabel, reservations) ==
  occReduce(SelectSeq(reservations, LAMBDA r : occFilter(r, date)), 0, slotLabel)

\* the body of the for loop of canBook at instant m: TRUE when the instant is refused
walkRejects(m, date, product, reservations, settings) ==
  LET slotLabel == fmtTime(m \div 60, JsMod(m, 60))
      occ == getSlotOccupancy(date, slotLabel, reservations)
  IN occ + product.requiredSlots > settings.maxCapacity

RECURSIVE walkLoop(_, _, _, _, _, _)
walkLoop(m, endMin, date, product, reservations, settings) ==
  IF ~(m < endMin) THEN TRUE
  ELSE IF walkRejects(m, date, product, reservations, settings) THEN FALSE
  ELSE walkLoop(m + settings.slotIntervalMin, endMin, date, product, reservations, settings)

\* canBook refusing a booking that ends exactly at closing time
canBookBeforeClose(date, startTime, product, reservations, settings) ==
  LET startMin == timeToMinutes(startTime)
      endMin == startMin + product.durationMin
      closeMin == settings.closeHour * 60 + settings.closeMin
  IN IF endMin >= closeMin THEN FALSE
     ELSE walkLoop(startMin, endMin, date, product, reservations, settings)

canBook(date, startTime, product, reservations, settings) ==
  LET startMin == timeToMinutes(startTime)
      endMin == startMin + product.durationMin
      closeMin == settings.closeHour * 60 + settings.closeMin
  IN IF endMin > closeMin THEN FALSE
     ELSE walkLoop(startMin, endMin, date, product, reservations, settings)

RECURSIVE availSum(_, _, _, _)
availSum(slots, dateStr, reservations, settings) ==
  IF slots = <<>> THEN 0
  ELSE Max(0, settings.maxCapacity - getSlotOccupancy(dateStr, Head(slots).label, reservations))
       + availSum(Tail(slots), dateStr, reservations, settings)

\* getDateAvailability as the pair of its numerator and denominator
getDateAvailability(dateStr, reservations, settings) ==
  LET slots == generateTimeSlots(settings)
  IN [totalAvail |-> availSum(slots, dateStr, reservations, settings),
      maxPossible |-> Len(slots) * settings.maxCapacity]


(***************************************************************************)
(* Storage: window.storage holds JSON text under two keys.                  *)
(***************************************************************************)
STORAGE_KEY == "pick-reservations-v2"
SETTINGS_KEY == "pick-settings-v2"

\* JSON.stringify / JSON.parse of plain data (strings, integers, arrays, objects)
JSON_stringify(data) == [json |-> data]
JSON_parse(text) == text.json

(***************************************************************************)
(* State of the App sessions (browser tabs sharing window.storage).        *)
(***************************************************************************)
Sessions == {"A", "B"}

VARIABLES
  loading,          \* App state, per session
  reservations,
  settings,
  toast,
  tab,
  selectedDate,
  selectedProduct,
  selectedTime,
  showSettings,     \* AdminPanel state, per session
  local,
  holidayInput,
  pending,          \* per session: the saveData calls whose storage.set is awaited
  storage,          \* window.storage: key -> <<>> (no item) or <<text>>
  nextId,           \* the next identifier genId hands out
  currentMonth,     \* App state, per session: year and month of the Date (its day is not read)
  loadGot,          \* per session and key: <<>> or <<the value loadData has returned>>
  now,              \* the Date new Date() falls on
  rendered          \* per session: the Date new Date() fell on when Calendar or
                    \* ReservationList were last rendered

\* the month shown, the load effect, the clock
clockVars == <<currentMonth, loadGot, now>>
calVars == <<clockVars, rendered>>

appVars == <<loading, reservations, settings, toast, tab, selectedDate, selectedProduct,
             selectedTime, showSettings, local, holidayInput, pending, storage, nextId,
             calVars>>

\* null values of the App state
NoDate == <<>>
NoProduct == "null"
NoTime == <<>>
NoToast == "null"

(***************************************************************************)
(* The engine functions applied to drawn inputs (fnIn), and their loops    *)
(* run one iteration at a time (loop).                                     *)
(***************************************************************************)
VARIABLES
  fnIn,     \* the arguments of the call
  fnPc,     \* "idle", "input", or the function that was applied
  fnOut,    \* its result
  loop      \* the local variables of a loop that runs step by step

fnVars == <<fnIn, fnPc, fnOut, loop>>
vars == <<appVars, fnVars>>

NoInput == [date |-> NoDate]
NoLoop == [pc |-> "idle"]

FnIdle ==
  /\ fnIn = NoInput
  /\ fnPc = "idle"
  /\ fnOut = 0
  /\ loop = NoLoop


\* the toasts the App shows: {message, type}
ToastBooked == "booked:success"
ToastCancelled == "cancelled:error"
ToastSettingsSaved == "settings-saved:success"

\* inputs of the model
\* the day the sessions are opened on, and the day the clock is moved to
InitialClock == NewDate(2026, 9, 31)
ClockDates == {NewDate(2026, 10, 3)}
DateList == <<fmtDate(NewDate(2026, 10, 2)), fmtDate(NewDate(2026, 10, 3)),
              fmtDate(NewDate(2026, 10, 4))>>
\* the dates of the holiday input, the days of a month the user clicks among, the
\* months the user pages forward from
Dates == {DateList[1]}
ClickDays == {2}
PagedFrom == {[y |-> 2026, m |-> 9]}
UserProducts == {"half"}
\* the slot buttons the user clicks among
ClickTimes == {fmtTime(9, 0)}
\* the number inputs of the settings editor the operator edits
EditedFields == {"closeHour"}
Names == {"", "Sato"}
Phones == {"", "0612345678"}

ProductOf(id) == PRODUCTS[CHOOSE i \in 1..Len(PRODUCTS) : PRODUCTS[i].id = id]

AppInit ==
  /\ loading = [s \in Sessions |-> TRUE]
  /\ reservations = [s \in Sessions |-> <<>>]
  /\ settings = [s \in Sessions |-> DEFAULT_SETTINGS]
  /\ toast = [s \in Sessions |-> NoToast]
  /\ tab = [s \in Sessions |-> "reserve"]
  /\ selectedDate = [s \in Sessions |-> NoDate]
  /\ selectedProduct = [s \in Sessions |-> NoProduct]
  /\ selectedTime = [s \in Sessions |-> NoTime]
  /\ showSettings = [s \in Sessions |-> FALSE]
  /\ local = [s \in Sessions |-> DEFAULT_SETTINGS]
  /\ holidayInput = [s \in Sessions |-> <<>>]
  /\ pending = [s \in Sessions |-> <<>>]
  /\ storage = [k \in {STORAGE_KEY, SETTINGS_KEY} |-> <<>>]
  /\ nextId = 1
  /\ now = InitialClock
  /\ currentMonth = [s \in Sessions |-> [y |-> InitialClock.y, m |-> InitialClock.m]]
  /\ loadGot = [s \in Sessions |-> [k \in {STORAGE_KEY, SETTINGS_KEY} |-> <<>>]]
  /\ rendered = [s \in Sessions |-> InitialClock]

(***************************************************************************)
(* Storage helpers.                                                        *)
(***************************************************************************)
\* loadData(key, fallback); ok = FALSE when window.storage.get rejects
loadData(key, fallback, ok) ==
  IF ok /\ storage[key] # <<>> THEN JSON_parse(storage[key][1]) ELSE fallback

\* { ...a, ...b }
mergeSettings(a, b) ==
  [f \in DOMAIN a \cup DOMAIN b |-> IF f \in DOMAIN b THEN b[f] ELSE a[f]]

\* the fallback the load effect passes for a key
loadFallback(key) == IF key = STORAGE_KEY THEN <<>> ELSE DEFAULT_SETTINGS

\* one of the two loadData calls of the load effect returns: window.storage.get
\* is answered from the item stored now
LoadGet(s, key, ok) ==
  /\ loading[s]
  /\ loadGot[s][key] = <<>>
  /\ loadGot' = [loadGot EXCEPT ![s][key] = <<loadData(key, loadFallback(key), ok)>>]
  /\ UNCHANGED <<loading, reservations, settings, toast, tab, selectedDate, selectedProduct,
                 selectedTime, showSettings, local, holidayInput, pending, storage, nextId,
                 currentMonth, now, rendered, fnVars>>

\* Calendar and ReservationList read the clock while they are rendered, and their
\* buttons keep what was computed then until the next render.  A change of the App
\* state renders App, and with it the one of the two that is on the page; the
\* passing of a day changes no state and renders nothing.
render(s) == rendered' = [rendered EXCEPT ![s] = now]

\* a handler after which they are rendered only when `shown`: a setState with the
\* value the state has renders nothing, and neither component is on the page
\* while the booking form or the admin tab is shown
renderIf(s, shown) == rendered' = [rendered EXCEPT ![s] = IF shown THEN now ELSE @]

\* the load effect of App after its await: Promise.all has both values
Load(s) ==
  /\ loading[s]
  /\ loadGot[s][STORAGE_KEY] # <<>> /\ loadGot[s][SETTINGS_KEY] # <<>>
  /\ reservations' = [reservations EXCEPT ![s] = loadGot[s][STORAGE_KEY][1]]
  /\ settings' = [settings EXCEPT ![s] =
                    mergeSettings(DEFAULT_SETTINGS, loadGot[s][SETTINGS_KEY][1])]
  /\ loading' = [loading EXCEPT ![s] = FALSE]
  /\ render(s)
  /\ UNCHANGED <<toast, tab, selectedDate, selectedProduct, selectedTime, showSettings,
                 local, holidayInput, pending, storage, nextId, clockVars, fnVars>>

\* saveData(key, data) up to its await: the write is in flight
saveData(s, key, data, kind) ==
  Append(pending[s], [kind |-> kind, key |-> key, text |-> JSON_stringify(data)])

(***************************************************************************)
(* Tabs.  AdminPanel is mounted while tab = "admin": its state starts from  *)
(* useState(settings) at mount and is dropped at unmount.                   *)
(***************************************************************************)
\* AdminPanel state after the tab changes from `from` to `to`
adminAfter(s, from, to) ==
  IF to = "admin" /\ from # "admin"
    THEN [showSettings |-> FALSE, local |-> settings[s], holidayInput |-> <<>>]
  ELSE IF to # "admin"
    THEN [showSettings |-> FALSE, local |-> DEFAULT_SETTINGS, holidayInput |-> <<>>]
  ELSE [showSettings |-> showSettings[s], local |-> local[s], holidayInput |-> holidayInput[s]]

setTab(s, to) ==
  LET a == adminAfter(s, tab[s], to)
  IN /\ tab' = [tab EXCEPT ![s] = to]
     /\ showSettings' = [showSettings EXCEPT ![s] = a.showSettings]
     /\ local' = [local EXCEPT ![s] = a.local]
     /\ holidayInput' = [holidayInput EXCEPT ![s] = a.holidayInput]

TabClick(s, to) ==
  /\ ~loading[s]
  /\ tab[s] # to \/ (to = "reserve" /\ selectedTime[s] # NoTime)
  /\ setTab(s, to)
  /\ selectedTime' = [selectedTime EXCEPT ![s] = IF to = "reserve" THEN NoTime ELSE @]
  /\ renderIf(s, to # "admin")
  /\ UNCHANGED <<loading, reservations, settings, toast, selectedDate, selectedProduct,
                 pending, storage, nextId, clockVars, fnVars>>

(***************************************************************************)
(* The reserve tab.                                                        *)
(***************************************************************************)
pickerShown(s) == ~loading[s] /\ tab[s] = "reserve" /\ selectedTime[s] = NoTime
formShown(s) == ~loading[s] /\ tab[s] = "reserve" /\ selectedTime[s] # NoTime
listShown(s) == ~loading[s] /\ tab[s] = "list"

SelectProduct(s, p) ==
  /\ pickerShown(s)
  /\ selectedProduct' = [selectedProduct EXCEPT ![s] = p]
  /\ selectedTime' = [selectedTime EXCEPT ![s] = NoTime]
  /\ renderIf(s, selectedProduct[s] # p)
  /\ UNCHANGED <<loading, reservations, settings, toast, tab, selectedDate, showSettings,
                 local, holidayInput, pending, storage, nextId, clockVars, fnVars>>

\* isPast(s), called on the day `today`: the date text is before that day
isPast(dateStr, today) == DateLess(parseDate(dateStr), today)

\* maxDate of Calendar as rendered: that day with setMonth(getMonth() + calendarMonths)
maxDate(s) ==
  NewDate(rendered[s].y, rendered[s].m + settings[s].calendarMonths, rendered[s].d)

canGoNext(s) ==
  DateLeq(NewDate(currentMonth[s].y, currentMonth[s].m + 1, 1), maxDate(s))

canGoPrev(s) ==
  DateLess(NewDate(rendered[s].y, rendered[s].m, 1),
           NewDate(currentMonth[s].y, currentMonth[s].m, 1))

\* setCurrentMonth(new Date(year, month, 1))
setCurrentMonth(s, year, month) ==
  LET d == NewDate(year, month, 1)
  IN currentMonth' = [currentMonth EXCEPT ![s] = [y |-> d.y, m |-> d.m]]

\* the next-month button, pressed while the month `from` is shown
NextMonthClick(s, from) ==
  /\ pickerShown(s)
  /\ currentMonth[s] = from
  /\ canGoNext(s)
  /\ setCurrentMonth(s, currentMonth[s].y, currentMonth[s].m + 1)
  /\ render(s)
  /\ UNCHANGED <<loading, reservations, settings, toast, tab, selectedDate, selectedProduct,
                 selectedTime, showSettings, local, holidayInput, pending, storage, nextId,
                 loadGot, now, fnVars>>

\* the previous-month button
PrevMonthClick(s) ==
  /\ pickerShown(s)
  /\ canGoPrev(s)
  /\ setCurrentMonth(s, currentMonth[s].y, currentMonth[s].m - 1)
  /\ render(s)
  /\ UNCHANGED <<loading, reservations, settings, toast, tab, selectedDate, selectedProduct,
                 selectedTime, showSettings, local, holidayInput, pending, storage, nextId,
                 loadGot, now, fnVars>>

\* the date text of the button of a day of the month shown
dayDateStr(s, day) == fmtDate(NewDate(currentMonth[s].y, currentMonth[s].m, day))

\* the calendar button of a day is disabled, as rendered
dayDisabled(s, dateStr) == isPast(dateStr, rendered[s]) \/ dateStr \in settings[s].holidays

\* a click on the button of a day of the month shown
SelectDate(s, day) ==
  /\ pickerShown(s)
  /\ day \in getMonthDays(currentMonth[s].y, currentMonth[s].m)
  /\ ~dayDisabled(s, dayDateStr(s, day))
  /\ selectedDate' = [selectedDate EXCEPT ![s] = dayDateStr(s, day)]
  /\ selectedTime' = [selectedTime EXCEPT ![s] = NoTime]
  /\ renderIf(s, selectedDate[s] # dayDateStr(s, day))
  /\ UNCHANGED <<loading, reservations, settings, toast, tab, selectedProduct, showSettings,
                 local, holidayInput, pending, storage, nextId, clockVars, fnVars>>

\* the slot buttons TimeSlotPicker renders for a product
validSlots(product, set) ==
  SelectSeq(generateTimeSlots(set),
            LAMBDA sl : sl.hour * 60 + sl.min + product.durationMin
                          <= set.closeHour * 60 + set.closeMin)

\* the labels of the slot buttons TimeSlotPicker shows
slotButtons(s) ==
  IF selectedDate[s] = NoDate \/ selectedProduct[s] = NoProduct THEN {}
  ELSE LET slots == validSlots(ProductOf(selectedProduct[s]), settings[s])
       IN {slots[i].label : i \in 1..Len(slots)}

\* a click on the slot button `label`
SelectTime(s, label) ==
  /\ pickerShown(s)
  /\ canBook(selectedDate[s], label, ProductOf(selectedProduct[s]), reservations[s], settings[s])
  /\ selectedTime' = [selectedTime EXCEPT ![s] = label]
  /\ UNCHANGED <<loading, reservations, settings, toast, tab, selectedDate, selectedProduct,
                 showSettings, local, holidayInput, pending, storage, nextId, calVars, fnVars>>

\* the back button of BookingForm
FormBack(s) ==
  /\ formShown(s)
  /\ selectedTime' = [selectedTime EXCEPT ![s] = NoTime]
  /\ render(s)
  /\ UNCHANGED <<loading, reservations, settings, toast, tab, selectedDate, selectedProduct,
                 showSettings, local, holidayInput, pending, storage, nextId, clockVars, fnVars>>

\* the object BookingForm hands to onConfirm
bookingInfo(date, startTime, product, name, phone) ==
  LET endMin == timeToMinutes(startTime) + product.durationMin
  IN [name |-> name, phone |-> phone,
      startTime |-> startTime,
      endTime |-> fmtTime(endMin \div 60, JsMod(endMin, 60)),
      date |-> date,
      productId |-> product.id,
      requiredSlots |-> product.requiredSlots,
      durationMin |-> product.durationMin]

formInfo(s, name, phone) ==
  bookingInfo(selectedDate[s], selectedTime[s], ProductOf(selectedProduct[s]), name, phone)

\* the record handleConfirm builds
newReservation(id, info) ==
  [id |-> id, name |-> info.name, phone |-> info.phone, startTime |-> info.startTime,
   endTime |-> info.endTime, date |-> info.date, productId |-> info.productId,
   requiredSlots |-> info.requiredSlots, durationMin |-> info.durationMin,
   status |-> "confirmed"]

\* persist(newRes) up to its await
persist(s, newRes, kind, lim) ==
  /\ Len(pending[s]) < lim.pending
  /\ reservations' = [reservations EXCEPT ![s] = newRes]
  /\ pending' = [pending EXCEPT ![s] = saveData(s, STORAGE_KEY, newRes, kind)]

\* the list handleConfirm hands to persist
confirmList(rs, newR) == Append(rs, newR)

\* the confirm button of BookingForm: handleConfirm up to its await
ConfirmClick(s, name, phone, lim) ==
  /\ formShown(s)
  /\ name # "" /\ phone # ""
  /\ nextId <= lim.res
  /\ persist(s, confirmList(reservations[s], newReservation(nextId, formInfo(s, name, phone))),
             "confirm", lim)
  /\ nextId' = nextId + 1
  /\ UNCHANGED <<loading, settings, toast, tab, selectedDate, selectedProduct, selectedTime,
                 showSettings, local, holidayInput, storage, calVars, fnVars>>

\* cancelList marking every record, whatever its id
cancelListAll(rs, id) == [i \in 1..Len(rs) |-> [rs[i] EXCEPT !.status = "cancelled"]]

\* cancelList marking the record confirmed
cancelListConfirm(rs, id) ==
  [i \in 1..Len(rs) |-> IF rs[i].id = id THEN [rs[i] EXCEPT !.status = "confirmed"] ELSE rs[i]]

\* cancelList dropping the record instead of marking it
cancelListRemove(rs, id) == SelectSeq(rs, LAMBDA r : r.id # id)

\* the list handleCancel hands to persist
cancelList(rs, id) ==
  [i \in 1..Len(rs) |-> IF rs[i].id = id THEN [rs[i] EXCEPT !.status = "cancelled"] ELSE rs[i]]

\* handleCancel(id) up to its await
handleCancel(s, id, lim) ==
  /\ persist(s, cancelList(reservations[s], id), "cancel", lim)
  /\ UNCHANGED <<loading, settings, toast, tab, selectedDate, selectedProduct, selectedTime,
                 showSettings, local, holidayInput, storage, nextId, clockVars, fnVars>>

\* the reservations ReservationList and AdminPanel list
activeIds(s) ==
  {reservations[s][i].id : i \in {j \in 1..Len(reservations[s]) :
                                     reservations[s][j].status = "confirmed"}}

\* the reservations ReservationList shows a cancel button for, as rendered
cancelButtons(s) ==
  {reservations[s][i].id : i \in {j \in 1..Len(reservations[s]) :
                                     /\ reservations[s][j].status = "confirmed"
                                     /\ ~isPast(reservations[s][j].date, rendered[s])}}

\* the cancel button of ReservationList
CancelClick(s, id, lim) ==
  /\ listShown(s)
  /\ id \in cancelButtons(s)
  /\ handleCancel(s, id, lim)
  /\ render(s)

\* the delete button of AdminPanel: onDeleteReservation
DeleteClick(s, id, lim) ==
  /\ ~loading[s] /\ tab[s] = "admin"
  /\ id \in activeIds(s)
  /\ handleCancel(s, id, lim)
  /\ UNCHANGED rendered


(***************************************************************************)
(* The admin tab: the settings editor of AdminPanel.                       *)
(***************************************************************************)
adminShown(s) == ~loading[s] /\ tab[s] = "admin"

ToggleSettings(s) ==
  /\ adminShown(s)
  /\ showSettings' = [showSettings EXCEPT ![s] = ~@]
  /\ UNCHANGED <<loading, reservations, settings, toast, tab, selectedDate, selectedProduct,
                 selectedTime, local, holidayInput, pending, storage, nextId, calVars, fnVars>>

\* the number inputs of the editor, with the value each falls back to
NumFields == {"maxCapacity", "openHour", "openMin", "closeHour", "closeMin", "calendarMonths"}
fieldFallback(f) ==
  CASE f = "maxCapacity" -> 1
    [] f = "calendarMonths" -> 3
    [] OTHER -> 0

\* parseInt(text) || fallback
parseIntOr(text, fallback) ==
  LET n == parseInt(text)
  IN IF n.nan THEN fallback
     ELSE IF n.value = 0 THEN fallback
     ELSE n.value

\* the texts the operator types into a number input
InputTexts(f) ==
  CASE f = "closeHour" -> {<<"8">>, <<"8", ".", "5">>}
    [] f = "maxCapacity" -> {<<"0">>}
    [] f = "openHour" -> {<<"1", "0">>}
    [] f = "closeMin" -> {<<"3", "0">>}
    [] f = "openMin" -> {<<"3", "0">>}
    [] f = "calendarMonths" -> {<<>>}

\* onChange of a number input
SetNumField(s, f, text) ==
  /\ adminShown(s) /\ showSettings[s]
  /\ local' = [local EXCEPT ![s] = [@ EXCEPT ![f] = parseIntOr(text, fieldFallback(f))]]
  /\ UNCHANGED <<loading, reservations, settings, toast, tab, selectedDate, selectedProduct,
                 selectedTime, showSettings, holidayInput, pending, storage, nextId, calVars, fnVars>>

\* onChange of the holiday date input
SetHolidayInput(s, d) ==
  /\ adminShown(s) /\ showSettings[s]
  /\ holidayInput' = [holidayInput EXCEPT ![s] = d]
  /\ UNCHANGED <<loading, reservations, settings, toast, tab, selectedDate, selectedProduct,
                 selectedTime, showSettings, local, pending, storage, nextId, calVars, fnVars>>

\* holidays is a duplicate-free array kept sorted: a set
addHoliday(s) ==
  /\ adminShown(s) /\ showSettings[s]
  /\ holidayInput[s] # <<>> /\ holidayInput[s] \notin local[s].holidays
  /\ local' = [local EXCEPT ![s] = [@ EXCEPT !.holidays = @ \cup {holidayInput[s]}]]
  /\ holidayInput' = [holidayInput EXCEPT ![s] = <<>>]
  /\ UNCHANGED <<loading, reservations, settings, toast, tab, selectedDate, selectedProduct,
                 selectedTime, showSettings, pending, storage, nextId, calVars, fnVars>>

removeHoliday(s, d) ==
  /\ adminShown(s) /\ showSettings[s]
  /\ d \in local[s].holidays
  /\ local' = [local EXCEPT ![s] = [@ EXCEPT !.holidays = @ \ {d}]]
  /\ UNCHANGED <<loading, reservations, settings, toast, tab, selectedDate, selectedProduct,
                 selectedTime, showSettings, holidayInput, pending, storage, nextId, calVars, fnVars>>

\* persistSettings(s1) up to its await
persistSettings(s, s1, lim) ==
  /\ Len(pending[s]) < lim.pending
  /\ settings' = [settings EXCEPT ![s] = s1]
  /\ pending' = [pending EXCEPT ![s] = saveData(s, SETTINGS_KEY, s1, "settings")]

\* the save button: handleSave
handleSave(s, lim) ==
  /\ adminShown(s) /\ showSettings[s]
  /\ persistSettings(s, local[s], lim)
  /\ showSettings' = [showSettings EXCEPT ![s] = FALSE]
  /\ UNCHANGED <<loading, reservations, toast, tab, selectedDate, selectedProduct,
                 selectedTime, local, holidayInput, storage, nextId, calVars, fnVars>>

(***************************************************************************)
(* Completion of a storage write and the code after the await.             *)
(***************************************************************************)
\* window.storage.set settles: ok = FALSE when it rejects (saveData logs and returns)
storageAfterSet(w, ok) == IF ok THEN [storage EXCEPT ![w.key] = <<w.text>>] ELSE storage

\* the toast each handler sets after its await
toastAfter(kind) ==
  CASE kind = "confirm" -> ToastBooked
    [] kind = "cancel" -> ToastCancelled
    [] kind = "settings" -> ToastSettingsSaved

WriteDone(s, ok) ==
  /\ pending[s] # <<>>
  /\ LET w == Head(pending[s])
     IN /\ storage' = storageAfterSet(w, ok)
        /\ pending' = [pending EXCEPT ![s] = Tail(@)]
        /\ toast' = [toast EXCEPT ![s] = toastAfter(w.kind)]
        /\ IF w.kind = "confirm"
             THEN /\ selectedTime' = [selectedTime EXCEPT ![s] = NoTime]
                  /\ selectedDate' = [selectedDate EXCEPT ![s] = NoDate]
                  /\ selectedProduct' = [selectedProduct EXCEPT ![s] = NoProduct]
                  /\ setTab(s, "list")
                  /\ render(s)
             ELSE /\ renderIf(s, pickerShown(s) \/ listShown(s))
                  /\ UNCHANGED <<selectedTime, selectedDate, selectedProduct, tab,
                                 showSettings, local, holidayInput>>
  /\ UNCHANGED <<loading, reservations, settings, nextId, clockVars, fnVars>>

\* the day changes to d
ClockMoves(d) ==
  /\ DateLess(now, d)
  /\ now' = d
  /\ UNCHANGED <<loading, reservations, settings, toast, tab, selectedDate, selectedProduct,
                 selectedTime, showSettings, local, holidayInput, pending, storage, nextId,
                 currentMonth, loadGot, rendered, fnVars>>

\* the timer of Toast fires: onClose
ToastClose(s) ==
  /\ toast[s] # NoToast
  /\ toast' = [toast EXCEPT ![s] = NoToast]
  /\ renderIf(s, pickerShown(s) \/ listShown(s))
  /\ UNCHANGED <<loading, reservations, settings, tab, selectedDate, selectedProduct,
                 selectedTime, showSettings, local, holidayInput, pending, storage, nextId,
                 clockVars, fnVars>>


(***************************************************************************)
(* Specifications of the App.                                              *)
(***************************************************************************)
Init == AppInit /\ FnIdle

\* the bounds of a specification: reservations created, writes in flight
Limits == [res |-> MaxRes, pending |-> MaxPending]
LimitsRepeat == [res |-> MaxResRepeat, pending |-> MaxPendingRepeat]

\* one session, every handler, every storage write succeeds
Next ==
  \/ \E key \in {STORAGE_KEY, SETTINGS_KEY}, ok \in BOOLEAN : LoadGet("A", key, ok)
  \/ Load("A")
  \/ \E to \in {"reserve", "list", "admin"} : TabClick("A", to)
  \/ \E p \in UserProducts : SelectProduct("A", p)
  \/ \E from \in PagedFrom : NextMonthClick("A", from)
  \/ PrevMonthClick("A")
  \/ \E day \in ClickDays : SelectDate("A", day)
  \/ \E label \in slotButtons("A") \cap ClickTimes : SelectTime("A", label)
  \/ FormBack("A")
  \/ \E name \in Names, phone \in Phones : ConfirmClick("A", name, phone, Limits)
  \/ \E id \in activeIds("A") : CancelClick("A", id, Limits)
  \/ \E id \in activeIds("A") : DeleteClick("A", id, Limits)
  \/ ToastClose("A")
  \/ ToggleSettings("A")
  \/ \E f \in EditedFields : \E text \in InputTexts(f) : SetNumField("A", f, text)
  \/ \E d \in Dates : SetHolidayInput("A", d)
  \/ addHoliday("A")
  \/ \E d \in Dates : removeHoliday("A", d)
  \/ handleSave("A", Limits)
  \/ WriteDone("A", TRUE)
  \/ \E d \in ClockDates : ClockMoves(d)

Spec == Init /\ [][Next]_vars

\* one session, the settings left as loaded, storage writes succeed or fail,
\* the confirm button clicked again while a save is awaited
NextBooking ==
  \/ \E key \in {STORAGE_KEY, SETTINGS_KEY}, ok \in BOOLEAN : LoadGet("A", key, ok)
  \/ Load("A")
  \/ \E to \in {"reserve", "list", "admin"} : TabClick("A", to)
  \/ \E p \in UserProducts : SelectProduct("A", p)
  \/ \E from \in PagedFrom : NextMonthClick("A", from)
  \/ \E day \in ClickDays : SelectDate("A", day)
  \/ \E label \in slotButtons("A") \cap ClickTimes : SelectTime("A", label)
  \/ FormBack("A")
  \/ \E name \in Names, phone \in Phones : ConfirmClick("A", name, phone, LimitsRepeat)
  \/ \E id \in activeIds("A") : CancelClick("A", id, LimitsRepeat)
  \/ \E id \in activeIds("A") : DeleteClick("A", id, LimitsRepeat)
  \/ ToastClose("A")
  \/ \E ok \in BOOLEAN : WriteDone("A", ok)

SpecBooking == Init /\ [][NextBooking]_vars

\* two sessions that share window.storage, the settings left as loaded
NextShared ==
  \E s \in Sessions :
    \/ \E key \in {STORAGE_KEY, SETTINGS_KEY} : LoadGet(s, key, TRUE)
    \/ Load(s)
    \/ \E to \in {"reserve", "list"} : TabClick(s, to)
    \/ \E p \in UserProducts : SelectProduct(s, p)
    \/ \E from \in PagedFrom : NextMonthClick(s, from)
    \/ \E day \in ClickDays : SelectDate(s, day)
    \/ \E label \in slotButtons(s) \cap ClickTimes : SelectTime(s, label)
    \/ \E name \in Names, phone \in Phones : ConfirmClick(s, name, phone, Limits)
    \/ \E id \in activeIds(s) : CancelClick(s, id, Limits)
    \/ WriteDone(s, TRUE)

SpecShared == Init /\ [][NextShared]_vars


(***************************************************************************)
(* The engine functions applied to drawn arguments.                        *)
(***************************************************************************)
\* longest reservation list drawn
MaxFnRes == 2

\* a drawn reservation: its date and status, start (minutes of the day), product
FnResKinds ==
  {[date |-> DateList[1], status |-> "confirmed"],
   [date |-> DateList[1], status |-> "cancelled"],
   [date |-> DateList[2], status |-> "confirmed"]}
FnResStarts == {10 * 60, 11 * 60}
FnProducts == {"quarter", "half"}
FnResSpecs ==
  {[date |-> k.date, status |-> k.status, startMin |-> st, productId |-> p] :
     k \in FnResKinds, st \in FnResStarts, p \in FnProducts}

\* drawn arguments of the query
FnStarts == {10 * 60, 11 * 60, 12 * 60}
FnSettings ==
  {[DEFAULT_SETTINGS EXCEPT !.maxCapacity = c, !.closeHour = cl.h, !.closeMin = cl.m,
                            !.slotIntervalMin = iv] :
     c \in {3, 6}, cl \in {[h |-> 13, m |-> 0], [h |-> 12, m |-> 30]}, iv \in {30, 45}}

labelAt(min) == fmtTime(min \div 60, JsMod(min, 60))

\* the record the App stores for a drawn reservation
fnReservation(id, rs) ==
  [newReservation(id, bookingInfo(rs.date, labelAt(rs.startMin), ProductOf(rs.productId),
                                  "Sato", "0612345678"))
     EXCEPT !.status = rs.status]

SeqsUpTo(S, n) == UNION {[1..k -> S] : k \in 0..n}

FnInputs ==
  {[date |-> DateList[1],
    startMin |-> st,
    startTime |-> labelAt(st),
    product |-> ProductOf(p),
    resSpecs |-> specs,
    reservations |-> [i \in 1..Len(specs) |-> fnReservation(i, specs[i])],
    settings |-> set] :
     st \in FnStarts, p \in FnProducts, specs \in SeqsUpTo(FnResSpecs, MaxFnRes),
     set \in FnSettings}

FnInit ==
  /\ AppInit
  /\ fnIn \in FnInputs
  /\ fnPc = "input"
  /\ fnOut = 0
  /\ loop = NoLoop

CallGetSlotOccupancy ==
  /\ fnPc = "input"
  /\ fnPc' = "getSlotOccupancy"
  /\ fnOut' = getSlotOccupancy(fnIn.date, fnIn.startTime, fnIn.reservations)
  /\ UNCHANGED <<appVars, fnIn, loop>>

CallCanBook ==
  /\ fnPc = "input"
  /\ fnPc' = "canBook"
  /\ fnOut' = canBook(fnIn.date, fnIn.startTime, fnIn.product, fnIn.reservations, fnIn.settings)
  /\ UNCHANGED <<appVars, fnIn, loop>>

CallGenerateTimeSlots ==
  /\ fnPc = "input"
  /\ fnPc' = "generateTimeSlots"
  /\ fnOut' = generateTimeSlots(fnIn.settings)
  /\ UNCHANGED <<appVars, fnIn, loop>>

CallGetDateAvailability ==
  /\ fnPc = "input"
  /\ fnPc' = "getDateAvailability"
  /\ fnOut' = getDateAvailability(fnIn.date, fnIn.reservations, fnIn.settings)
  /\ UNCHANGED <<appVars, fnIn, loop>>

NextFn ==
  \/ CallGetSlotOccupancy
  \/ CallCanBook
  \/ CallGenerateTimeSlots
  \/ CallGetDateAvailability

SpecFn == FnInit /\ [][NextFn]_vars


(***************************************************************************)
(* Claims about the engine functions.                                      *)
(***************************************************************************)
closeOf(set) == set.closeHour * 60 + set.closeMin

\* instant k of the walk of a booking passes the capacity check
InstantFits(in, k) ==
  getSlotOccupancy(in.date, labelAt(in.startMin + k * in.settings.slotIntervalMin),
                   in.reservations)
    + in.product.requiredSlots <= in.settings.maxCapacity

\* the instants start + k*interval below the end of the booking
WalkIndexes(in) ==
  {k \in 0..in.product.durationMin : k * in.settings.slotIntervalMin < in.product.durationMin}

CanBookExpected(in) ==
  /\ in.startMin + in.product.durationMin <= closeOf(in.settings)
  /\ \A k \in WalkIndexes(in) : InstantFits(in, k)

\* C2: canBook is true exactly when the booking ends by closing time and every
\* instant start + k*interval below its end has occupancy + requiredSlots <=
\* maxCapacity; it is false otherwise.
C2_CanBookExact ==
  fnPc = "canBook" => (fnOut <=> CanBookExpected(fnIn))

\* a booking within hours whose duration is no multiple of the interval, refused
\* only at the last stepped instant below its end
C2_Witness ==
  /\ fnPc = "canBook"
  /\ fnOut = FALSE
  /\ fnIn.startMin + fnIn.product.durationMin <= closeOf(fnIn.settings)
  /\ fnIn.product.durationMin % fnIn.settings.slotIntervalMin # 0
  /\ \E last \in WalkIndexes(fnIn) :
       /\ \A k \in WalkIndexes(fnIn) : k <= last
       /\ ~InstantFits(fnIn, last)
       /\ \A k \in WalkIndexes(fnIn) : k < last => InstantFits(fnIn, k)

\* the drawn reservations that count at minute t of a date
CountedAt(specs, date, t) ==
  {i \in 1..Len(specs) :
     /\ specs[i].status = "confirmed"
     /\ specs[i].date = date
     /\ specs[i].startMin <= t
     /\ t < specs[i].startMin + ProductOf(specs[i].productId).durationMin}

RECURSIVE UnitsOf(_, _)
UnitsOf(specs, idx) ==
  IF idx = {} THEN 0
  ELSE LET i == CHOOSE j \in idx : TRUE
       IN ProductOf(specs[i].productId).requiredSlots + UnitsOf(specs, idx \ {i})

\* the reservations of the list that do not end at the label t
NotEndingAt(rs, t) == SelectSeq(rs, LAMBDA r : r.endTime # t)

\* C8: getSlotOccupancy adds the requiredSlots of exactly the reservations that are
\* confirmed, on the date, with startTime <= t < endTime; so a booking is admitted
\* whenever it is admitted with the reservations ending at its start left out.
C8_HalfOpenOccupancy ==
  /\ fnPc = "getSlotOccupancy" =>
       fnOut = UnitsOf(fnIn.resSpecs, CountedAt(fnIn.resSpecs, fnIn.date, fnIn.startMin))
  /\ fnPc = "canBook" =>
       (canBook(fnIn.date, fnIn.startTime, fnIn.product,
                NotEndingAt(fnIn.reservations, fnIn.startTime), fnIn.settings) => fnOut)

\* the occupancy at 12:00 with a confirmed reservation of the date ending at 12:00
\* and another one counted
C8_Witness ==
  /\ fnPc = "getSlotOccupancy"
  /\ fnIn.startMin = 12 * 60
  /\ fnOut > 0
  /\ \E i \in 1..Len(fnIn.resSpecs) :
       /\ fnIn.resSpecs[i].status = "confirmed"
       /\ fnIn.resSpecs[i].date = fnIn.date
       /\ fnIn.resSpecs[i].startMin + ProductOf(fnIn.resSpecs[i].productId).durationMin
            = fnIn.startMin


(***************************************************************************)
(* The two loops of the engine run one iteration at a time.                *)
(***************************************************************************)
\* iterations of one loop that are followed
MaxIter == 3

LoopSettings ==
  {[DEFAULT_SETTINGS EXCEPT !.closeHour = cl, !.slotIntervalMin = iv, !.maxCapacity = c] :
     cl \in {8, 9, 10}, iv \in {-30, 0, 30}, c \in {2, 6}}

LoopInputs ==
  {[date |-> DateList[1],
    startMin |-> 9 * 60,
    startTime |-> labelAt(9 * 60),
    product |-> ProductOf(p),
    reservations |-> rs,
    settings |-> set] :
     p \in {"quarter"},
     rs \in {<<>>, <<fnReservation(1, [date |-> DateList[1], status |-> "confirmed",
                                       startMin |-> 9 * 60, productId |-> "half"])>>},
     set \in LoopSettings}

LoopInit ==
  /\ AppInit
  /\ fnIn \in LoopInputs
  /\ fnPc = "input"
  /\ fnOut = 0
  /\ loop = NoLoop

\* generateTimeSlots up to its loop
GenEnter ==
  /\ fnPc = "input"
  /\ fnPc' = "generateTimeSlots:running"
  /\ loop' = [pc |-> "gen", h |-> fnIn.settings.openHour, m |-> fnIn.settings.openMin,
              slots |-> <<>>, iter |-> 0]
  /\ UNCHANGED <<appVars, fnIn, fnOut>>

\* one iteration of the while loop
GenIterate ==
  /\ loop.pc = "gen"
  /\ genCond(loop.h, loop.m, fnIn.settings)
  /\ loop.iter < MaxIter
  /\ LET nx == genAdvance(loop.h, loop.m, fnIn.settings)
     IN loop' = [pc |-> "gen", h |-> nx.h, m |-> nx.m,
                 slots |-> Append(loop.slots, genSlot(loop.h, loop.m)),
                 iter |-> loop.iter + 1]
  /\ UNCHANGED <<appVars, fnIn, fnPc, fnOut>>

\* the loop ends: return slots
GenReturn ==
  /\ loop.pc = "gen"
  /\ ~genCond(loop.h, loop.m, fnIn.settings)
  /\ fnPc' = "generateTimeSlots"
  /\ fnOut' = loop.slots
  /\ loop' = [loop EXCEPT !.pc = "returned"]
  /\ UNCHANGED <<appVars, fnIn>>

\* canBook up to its loop
WalkEnter ==
  /\ fnPc = "input"
  /\ LET startMin == timeToMinutes(fnIn.startTime)
         endMin == startMin + fnIn.product.durationMin
         closeMin == fnIn.settings.closeHour * 60 + fnIn.settings.closeMin
     IN IF endMin > closeMin
          THEN /\ fnPc' = "canBook"
               /\ fnOut' = FALSE
               /\ loop' = [pc |-> "returned", m |-> startMin, endMin |-> endMin, iter |-> 0]
          ELSE /\ fnPc' = "canBook:running"
               /\ fnOut' = fnOut
               /\ loop' = [pc |-> "walk", m |-> startMin, endMin |-> endMin, iter |-> 0]
  /\ UNCHANGED <<appVars, fnIn>>

\* one iteration of the for loop
WalkIterate ==
  /\ loop.pc = "walk"
  /\ loop.m < loop.endMin
  /\ loop.iter < MaxIter
  /\ IF walkRejects(loop.m, fnIn.date, fnIn.product, fnIn.reservations, fnIn.settings)
       THEN /\ fnPc' = "canBook"
            /\ fnOut' = FALSE
            /\ loop' = [loop EXCEPT !.pc = "returned"]
       ELSE /\ loop' = [loop EXCEPT !.m = @ + fnIn.settings.slotIntervalMin, !.iter = @ + 1]
            /\ UNCHANGED <<fnPc, fnOut>>
  /\ UNCHANGED <<appVars, fnIn>>

\* the loop ends: return true
WalkReturn ==
  /\ loop.pc = "walk"
  /\ ~(loop.m < loop.endMin)
  /\ fnPc' = "canBook"
  /\ fnOut' = TRUE
  /\ loop' = [loop EXCEPT !.pc = "returned"]
  /\ UNCHANGED <<appVars, fnIn>>

NextLoop ==
  \/ GenEnter
  \/ GenIterate
  \/ GenReturn
  \/ WalkEnter
  \/ WalkIterate
  \/ WalkReturn

SpecLoop == LoopInit /\ [][NextLoop]_vars

openOf(set) == set.openHour * 60 + set.openMin

Degenerate(set) == openOf(set) >= closeOf(set) \/ set.slotIntervalMin <= 0

\* C9: generateTimeSlots and the walk of canBook terminate for every Settings
\* value: each iteration run has moved the loop's instant at least one minute
\* towards its bound (so a loop ends within bound - start iterations), and for a
\* degenerate configuration generateTimeSlots emits no slot.
C9_LoopsTerminate ==
  /\ loop.pc = "gen" =>
       loop.h * 60 + loop.m >= openOf(fnIn.settings) + loop.iter
  /\ loop.pc = "walk" =>
       loop.m >= fnIn.startMin + loop.iter
  /\ (fnPc \in {"generateTimeSlots:running", "generateTimeSlots"}
        /\ Degenerate(fnIn.settings)) => loop.slots = <<>>


(***************************************************************************)
(* Claims about the App.                                                   *)
(***************************************************************************)
\* the reservation list window.storage holds
StoredList(st) == IF st[STORAGE_KEY] = <<>> THEN <<>> ELSE JSON_parse(st[STORAGE_KEY][1])

Ids(rs) == {rs[i].id : i \in 1..Len(rs)}

\* C1: with the settings left as loaded and an initially empty list, after any
\* sequence of choose / confirm (also clicked again while the save is awaited) /
\* cancel actions the occupancy of every generated slot of every date is at most
\* maxCapacity.
C1_OccupancyWithinCapacity ==
  \A d \in Dates :
    LET slots == generateTimeSlots(settings["A"])
    IN \A i \in 1..Len(slots) :
         getSlotOccupancy(d, slots[i].label, reservations["A"]) <= settings["A"].maxCapacity

\* new is old changed by one handleConfirm or one handleCancel
OneOperation(old, new) ==
  \/ Len(new) = Len(old) + 1 /\ SubSeq(new, 1, Len(old)) = old
  \/ \E id \in Ids(old) : new = cancelList(old, id)

\* C3: read, validate, append, persist is one transaction: every list written to
\* the shared storage is the list stored at that moment changed by the one
\* operation, so nothing another session stored is lost.
C3_WriteIsOneOperation ==
  [][StoredList(storage') # StoredList(storage)
       => OneOperation(StoredList(storage), StoredList(storage'))]_vars

\* C4: handleConfirm never creates a reservation whose date is in
\* settings.holidays at the moment it is created.
C4_NoBookingOnHoliday ==
  [][\A s \in Sessions :
       (~loading[s] /\ Len(reservations'[s]) > Len(reservations[s]))
         => reservations'[s][Len(reservations'[s])].date \notin settings[s].holidays]_vars

\* the write at the head of the queue of s settles rejected
WriteFails(s) ==
  /\ pending[s] # <<>>
  /\ pending'[s] = Tail(pending[s])
  /\ Head(pending[s]).key = STORAGE_KEY
  /\ storage'[STORAGE_KEY] # <<Head(pending[s]).text>>

\* C5: when the write of persist fails, afterwards the list in memory equals the
\* last persisted list or the failure is shown to the user, and the
\* booking-confirmed toast is not shown for the reservation that was not stored.
C5_FailedSaveNotCommitted ==
  [][\A s \in Sessions :
       WriteFails(s) =>
         /\ \/ reservations'[s] = StoredList(storage')
            \/ toast'[s] \notin {NoToast, ToastBooked, ToastCancelled, ToastSettingsSaved}
         /\ ~(Head(pending[s]).kind = "confirm" /\ toast'[s] = ToastBooked)]_vars

\* C6: a reservation is created confirmed, its status changes only from confirmed
\* to cancelled, and no record leaves the reservation list.
C6_StatusOnlyCancels ==
  [][\A s \in Sessions :
       ~loading[s] =>
         /\ Len(reservations'[s]) >= Len(reservations[s])
         /\ \A i \in 1..Len(reservations[s]) :
              /\ reservations'[s][i].id = reservations[s][i].id
              /\ \/ reservations'[s][i].status = reservations[s][i].status
                 \/ /\ reservations[s][i].status = "confirmed"
                    /\ reservations'[s][i].status = "cancelled"
         /\ \A i \in (Len(reservations[s]) + 1)..Len(reservations'[s]) :
              reservations'[s][i].status = "confirmed"]_vars

\* a cancelled reservation is kept in the list and a later one is confirmed
C6_Witness ==
  \E i, j \in 1..Len(reservations["A"]) :
    /\ i < j
    /\ reservations["A"][i].status = "cancelled"
    /\ reservations["A"][j].status = "confirmed"

\* C7: the delete button of the admin panel removes the reservation from the
\* reservation list.
C7_DeleteRemovesRecord ==
  [][\A s \in Sessions :
       (~loading[s] /\ tab[s] = "admin" /\ reservations'[s] # reservations[s])
         => \E id \in activeIds(s) :
              reservations'[s] = SelectSeq(reservations[s], LAMBDA r : r.id # id)]_vars

\* C10: the settings in effect never have closeTime <= openTime or a
\* non-positive slot interval.
C10_SettingsAccepted ==
  \A s \in Sessions :
    /\ openOf(settings[s]) < closeOf(settings[s])
    /\ settings[s].slotIntervalMin > 0


(***************************************************************************)
(* The engine on the opening hours of a day: the grid, the availability of *)
(* the day, and a cancellation in the reservation list of the day.         *)
(***************************************************************************)
\* opening hours drawn: closing before, at and after opening, the span a multiple
\* of the interval or not
DaySettings ==
  {[DEFAULT_SETTINGS EXCEPT !.maxCapacity = 3, !.openMin = om, !.closeHour = cl.h,
                            !.closeMin = cl.m, !.slotIntervalMin = iv] :
     om \in {0, 15},
     cl \in {[h |-> 8, m |-> 0], [h |-> 9, m |-> 15], [h |-> 11, m |-> 0], [h |-> 11, m |-> 40]},
     iv \in {30, 45}}

DayInputs ==
  {[date |-> DateList[1],
    startMin |-> 10 * 60,
    startTime |-> labelAt(10 * 60),
    product |-> ProductOf("half"),
    resSpecs |-> specs,
    reservations |-> [i \in 1..Len(specs) |-> fnReservation(i, specs[i])],
    settings |-> set] :
     specs \in SeqsUpTo(FnResSpecs, MaxFnRes), set \in DaySettings}

DayInit ==
  /\ AppInit
  /\ fnIn \in DayInputs
  /\ fnPc = "input"
  /\ fnOut = 0
  /\ loop = NoLoop

\* handleCancel(id) on the drawn list: the list it hands to persist
CallHandleCancel ==
  /\ fnPc = "input"
  /\ \E i \in 1..Len(fnIn.reservations) :
       fnOut' = cancelList(fnIn.reservations, fnIn.reservations[i].id)
  /\ fnPc' = "handleCancel"
  /\ UNCHANGED <<appVars, fnIn, loop>>

NextDay ==
  \/ CallGenerateTimeSlots
  \/ CallGetDateAvailability
  \/ CallHandleCancel

SpecDay == DayInit /\ [][NextDay]_vars

\* minutes of the day of a generated slot
OffsetOf(slot) == slot.hour * 60 + slot.min

\* the offsets openTime + k*slotIntervalMin below closeTime
GridOffsets(set) ==
  {o \in openOf(set)..(closeOf(set) - 1) : (o - openOf(set)) % set.slotIntervalMin = 0}

\* C11: for openTime < closeTime and slotIntervalMin > 0, generateTimeSlots returns
\* in strictly increasing order exactly the offsets openTime + k*slotIntervalMin
\* below closeTime, each with openTime <= offset < closeTime and labelled with its
\* time, also when the span is no multiple of the interval.
C11_GridWithinHours ==
  (/\ fnPc = "generateTimeSlots"
   /\ openOf(fnIn.settings) < closeOf(fnIn.settings)
   /\ fnIn.settings.slotIntervalMin > 0) =>
    /\ {OffsetOf(fnOut[i]) : i \in 1..Len(fnOut)} = GridOffsets(fnIn.settings)
    /\ \A i \in 1..(Len(fnOut) - 1) : OffsetOf(fnOut[i]) < OffsetOf(fnOut[i + 1])
    /\ \A i \in 1..Len(fnOut) :
         /\ openOf(fnIn.settings) <= OffsetOf(fnOut[i])
         /\ OffsetOf(fnOut[i]) < closeOf(fnIn.settings)
         /\ timeToMinutes(fnOut[i].label) = OffsetOf(fnOut[i])

\* a grid of several slots whose span is no multiple of the interval: the slot
\* after the last one would pass the closing time
C11_Witness ==
  /\ fnPc = "generateTimeSlots"
  /\ openOf(fnIn.settings) < closeOf(fnIn.settings)
  /\ (closeOf(fnIn.settings) - openOf(fnIn.settings)) % fnIn.settings.slotIntervalMin # 0
  /\ Len(fnOut) >= 2
  /\ OffsetOf(fnOut[Len(fnOut)]) + fnIn.settings.slotIntervalMin > closeOf(fnIn.settings)


\* the dates, instants and bookings the lists before and after are compared at
CancelDates == {DateList[1], DateList[2]}
CancelInstants == {9 * 60 + 30 * k : k \in 1..8}
CancelStarts == {9 * 60 + 30, 10 * 60}

OccupancyNotRaised(before, after) ==
  \A d \in CancelDates, t \in CancelInstants :
    getSlotOccupancy(d, labelAt(t), after) <= getSlotOccupancy(d, labelAt(t), before)

AvailabilityNotLowered(before, after, set) ==
  \A d \in CancelDates :
    getDateAvailability(d, after, set).totalAvail
      >= getDateAvailability(d, before, set).totalAvail

StillBookable(before, after, set) ==
  \A d \in CancelDates, st \in CancelStarts, p \in FnProducts :
    canBook(d, labelAt(st), ProductOf(p), before, set)
      => canBook(d, labelAt(st), ProductOf(p), after, set)

\* C12: after handleCancel(id) for an id of the list, the occupancy of every date
\* and instant is at most what it was, the availability numerator of every date
\* is at least what it was, and every booking canBook admitted is still admitted.
C12_CancelReleasesCapacity ==
  fnPc = "handleCancel" =>
    /\ OccupancyNotRaised(fnIn.reservations, fnOut)
    /\ AvailabilityNotLowered(fnIn.reservations, fnOut, fnIn.settings)
    /\ StillBookable(fnIn.reservations, fnOut, fnIn.settings)

\* a cancellation that lowers the occupancy at 10:00, raises the availability of
\* the day and turns a refused booking into an admitted one, another booking
\* being admitted before and after
C12_Witness ==
  /\ fnPc = "handleCancel"
  /\ getSlotOccupancy(fnIn.date, labelAt(10 * 60), fnOut)
       < getSlotOccupancy(fnIn.date, labelAt(10 * 60), fnIn.reservations)
  /\ getDateAvailability(fnIn.date, fnOut, fnIn.settings).totalAvail
       > getDateAvailability(fnIn.date, fnIn.reservations, fnIn.settings).totalAvail
  /\ \E st \in CancelStarts, p \in FnProducts :
       /\ ~canBook(fnIn.date, labelAt(st), ProductOf(p), fnIn.reservations, fnIn.settings)
       /\ canBook(fnIn.date, labelAt(st), ProductOf(p), fnOut, fnIn.settings)
  /\ \E st \in CancelStarts, p \in FnProducts :
       canBook(DateList[2], labelAt(st), ProductOf(p), fnIn.reservations, fnIn.settings)


\* the drawn reservation covers minute t of the date
Covers(spec, date, t) ==
  /\ spec.date = date
  /\ spec.startMin <= t
  /\ t < spec.startMin + ProductOf(spec.productId).durationMin

RemoveAt(rs, i) == SubSeq(rs, 1, i - 1) \o SubSeq(rs, i + 1, Len(rs))

\* the occupancy of the queried instant with the drawn reservation appended
OccupancyWith(spec) ==
  getSlotOccupancy(fnIn.date, fnIn.startTime,
                   Append(fnIn.reservations, fnReservation(Len(fnIn.reservations) + 1, spec)))

\* C13: appending a confirmed reservation never lowers getSlotOccupancy and raises
\* it by exactly its requiredSlots when it is on the date and covers the instant;
\* appending or removing a cancelled reservation leaves it unchanged.
C13_OccupancyMonotone ==
  fnPc = "getSlotOccupancy" =>
    /\ \A spec \in FnResSpecs :
         /\ spec.status = "confirmed" =>
              /\ OccupancyWith(spec) >= fnOut
              /\ Covers(spec, fnIn.date, fnIn.startMin) =>
                   OccupancyWith(spec) = fnOut + ProductOf(spec.productId).requiredSlots
         /\ spec.status = "cancelled" => OccupancyWith(spec) = fnOut
    /\ \A i \in 1..Len(fnIn.reservations) :
         fnIn.reservations[i].status = "cancelled" =>
           getSlotOccupancy(fnIn.date, fnIn.startTime, RemoveAt(fnIn.reservations, i)) = fnOut

\* an occupied instant that a cancelled reservation of the list covers and that a
\* further confirmed reservation would cover
C13_Witness ==
  /\ fnPc = "getSlotOccupancy"
  /\ fnOut > 0
  /\ \E i \in 1..Len(fnIn.resSpecs) :
       /\ fnIn.resSpecs[i].status = "cancelled"
       /\ Covers(fnIn.resSpecs[i], fnIn.date, fnIn.startMin)
  /\ \E spec \in FnResSpecs :
       /\ spec.status = "confirmed"
       /\ Covers(spec, fnIn.date, fnIn.startMin)
       /\ OccupancyWith(spec) > fnOut


\* C14: getDateAvailability returns a ratio in [0,1]: its numerator is between 0
\* and slots.length * maxCapacity and its denominator slots.length * maxCapacity
\* is positive, also with an over-occupied slot or an empty grid.
C14_AvailabilityRatio ==
  fnPc = "getDateAvailability" =>
    /\ 0 <= fnOut.totalAvail
    /\ fnOut.totalAvail <= fnOut.maxPossible
    /\ fnOut.maxPossible > 0


(***************************************************************************)
(* Claims about the selections and the frame of the handlers.              *)
(***************************************************************************)
\* C15: whenever the booking form is displayed, canBook holds of the selected
\* date, time and product for the current reservations and settings.
C15_FormImpliesCanBook ==
  \A s \in Sessions :
    formShown(s) =>
      canBook(selectedDate[s], selectedTime[s], ProductOf(selectedProduct[s]),
              reservations[s], settings[s])


\* this step of session s is a call of the handler whose write has the kind
Called(s, kind) ==
  /\ Len(pending'[s]) = Len(pending[s]) + 1
  /\ pending'[s][Len(pending'[s])].kind = kind

\* C16: handleCancel(id), for every id it can be handed, changes only the status
\* field of the reservations with that id: the reservations with another id, the
\* other fields of the targeted ones, the order and length of the list and the
\* settings stay; persistSettings leaves the reservation list as it is.
C16_HandlerFrame ==
  [][\A s \in Sessions :
       /\ \A id \in Ids(reservations[s]) :
            handleCancel(s, id, Limits) =>
              /\ Called(s, "cancel")
              /\ Len(reservations'[s]) = Len(reservations[s])
              /\ \A i \in 1..Len(reservations[s]) :
                   IF reservations[s][i].id = id
                     THEN [reservations'[s][i] EXCEPT !.status = reservations[s][i].status]
                            = reservations[s][i]
                     ELSE reservations'[s][i] = reservations[s][i]
              /\ settings'[s] = settings[s]
       /\ Called(s, "settings") => reservations'[s] = reservations[s]]_vars

\* handleCancel has just run on a list of two reservations, one of them left
\* confirmed, with settings that persistSettings installed
C16_Witness ==
  /\ pending["A"] # <<>>
  /\ pending["A"][Len(pending["A"])].kind = "cancel"
  /\ Len(reservations["A"]) = 2
  /\ \E i, j \in 1..2 : /\ reservations["A"][i].status = "cancelled"
                        /\ reservations["A"][j].status = "confirmed"
  /\ settings["A"] # DEFAULT_SETTINGS

====
